---------------------------- MODULE Spec2Model ----------------------------
(***************************************************************************)
(* Model of the Axelar "Projects & Transactions Status Overview" dashboard *)
(* (src/📚Main_Dashboard.py): six memoised warehouse queries executed in a *)
(* fixed order by a top-to-bottom script, followed by the rendering of KPI *)
(* tiles and charts.                                                       *)
(*                                                                         *)
(* Conventions                                                             *)
(*   - A result table (pandas DataFrame) is a sequence of row records;     *)
(*     DataFrame.empty is Len(df) = 0.                                     *)
(*   - A nullable SQL scalar is <<>> (NULL) or <<v>>.                      *)
(*   - Dates are day numbers; day 0 is a Monday.                           *)
(*   - Fees are integers in micro-units; "Total Fee" and "Average Block    *)
(*     Time" are NUMBERs of scale 2, held as integers in hundredths.       *)
(*   - Timestamps are integers in ticks, TicksPerSecond ticks a second.    *)
(*   - LABEL values are numbered 1..NumLabels.                             *)
(***************************************************************************)
EXTENDS Integers, Sequences, FiniteSets, TLC

VARIABLES
    txs,        \* axelar.core.fact_transactions: set of rows
    blocks,     \* axelar.core.fact_blocks: timestamps in block_id order
    today,      \* CURRENT_DATE
    cache,      \* st.cache_data store: loader |-> <<>> or <<table>>
    df,         \* the script's six result variables (chain_summary, ...)
    loaded,     \* the result variables assigned so far in this run
    pc,         \* position of the script run
    ip,         \* index of the loader being called / of the row being drawn
    inflight,   \* queries sent to the warehouse and not yet returned
    connects,   \* connections opened by this run (line 41)
    page,       \* widget |-> what this run drew for it
    log,        \* order of the steps of this run
    error,      \* the exception that ended this run, "" if none
    execs,      \* loader |-> times its query was sent to the warehouse
    stores,     \* loader |-> times a result was written to the cache
    runs,       \* script runs started so far
    failures,   \* warehouse failures injected so far
    ingests,    \* rows appended to the warehouse so far
    calc        \* last direct evaluation of a query (SpecCalc)

vars == <<txs, blocks, today, cache, df, loaded, pc, ip, inflight, connects,
          page, log, error, execs, stores, runs, failures, ingests, calc>>

---------------------------------------------------------------------------
(* Bounds of the model *)

MaxRuns == 2
MaxFailures == 1
MaxIngests == 1
MaxBlocks == 4
MaxTick == 6
TicksPerSecond == 2
MaxActiveDays == 12
MaxTxns == 60
FirstToday == 40

(* Program constants *)

TopN == 10
WindowDays == 30

---------------------------------------------------------------------------
(* Generic helpers *)

Mega == 10 ^ 6

Min(a, b) == IF a <= b THEN a ELSE b

RECURSIVE SumSet(_, _)
\* Sum of f[x] over x in S.
SumSet(S, f) ==
    IF S = {} THEN 0
    ELSE LET x == CHOOSE y \in S : TRUE
         IN  f[x] + SumSet(S \ {x}, f)

RECURSIVE SumSeq(_)
SumSeq(s) == IF Len(s) = 0 THEN 0 ELSE Head(s) + SumSeq(Tail(s))

\* The elements of S in ascending order of their keys key[x] (no two equal),
\* as a sequence.
SortSet(S, key) ==
    [i \in 1..Cardinality(S) |->
        CHOOSE x \in S : Cardinality({y \in S : key[y] < key[x]}) = i - 1]

\* a / b rounded to the nearest integer, halves away from zero (a >= 0, b > 0).
RoundDiv(a, b) == (2 * a + b) \div (2 * b)

---------------------------------------------------------------------------
(* Warehouse arithmetic.  The warehouse computes on fixed-point NUMBERs:   *)
(* an integer divided by an integer has 6 fractional digits, a further     *)
(* division has 12, each result rounded at its last digit.  A NUMBER of    *)
(* scale 12 is [w, hi, lo] = w + hi / 10^6 + lo / 10^12, so that no        *)
(* intermediate value leaves the range of 32-bit integers.                 *)

\* a / b for integer a >= 0, b > 0 (first division of lines 59-61).
DivInt(a, b) ==
    LET w == a \div b
        f == RoundDiv((a % b) * Mega, b)
    IN  IF f = Mega THEN [w |-> w + 1, hi |-> 0, lo |-> 0]
        ELSE [w |-> w, hi |-> f, lo |-> 0]

\* n / d for a scale-12 NUMBER n and a literal d (the "/ 24", "/ 60").
DivDec(n, d) ==
    LET q0 == n.w \div d
        t1 == (n.w % d) * Mega + n.hi
        q1 == t1 \div d
        t2 == (t1 % d) * Mega + n.lo
        q2 == t2 \div d
        lo == q2 + (IF 2 * (t2 % d) >= d THEN 1 ELSE 0)
        hi == q1 + (IF lo = Mega THEN 1 ELSE 0)
    IN  [w  |-> q0 + (IF hi = Mega THEN 1 ELSE 0),
         hi |-> IF hi = Mega THEN 0 ELSE hi,
         lo |-> IF lo = Mega THEN 0 ELSE lo]

\* ROUND(n): to the nearest integer, halves away from zero.
Round0(n) == n.w + (IF 2 * n.hi >= Mega THEN 1 ELSE 0)

\* ROUND((COUNT(DISTINCT tx_id) / COUNT(DISTINCT date)) / 24)
TPH(T, D) == Round0(DivDec(DivInt(T, D), 24))

\* Variant: the quotient rounded to an integer after every division.
TPMRoundedPerStage(T, D) == RoundDiv(RoundDiv(RoundDiv(T, D), 24), 60)

\* ROUND((... / ...) / 24 / 60)
TPM(T, D) == Round0(DivDec(DivDec(DivInt(T, D), 24), 60))

\* ROUND((... / ...) / 24 / 60 / 60)
TPS(T, D) == Round0(DivDec(DivDec(DivDec(DivInt(T, D), 24), 60), 60))

\* ROUND(SUM(fee / 1e6), 2), in hundredths, for a fee sum F in micro-units.
TotalFee(F) == RoundDiv(F, 10 ^ 4)

---------------------------------------------------------------------------
(* Outcome of sending a query to the warehouse *)

Success(rows) == [ok |-> TRUE, rows |-> rows, err |-> ""]

Failure(e) == [ok |-> FALSE, rows |-> <<>>, err |-> e]

---------------------------------------------------------------------------
(* (a) load_chain_summary *)

\* Variant: the WHERE clause left out.
SucceededUnfiltered(t) == t

\* WHERE TX_SUCCEEDED = TRUE
Succeeded(t) == {r \in t : r.ok}

\* The SELECT list over the aggregates T = COUNT(DISTINCT tx_id),
\* D = COUNT(DISTINCT block_timestamp::date), U = COUNT(DISTINCT tx_from) and
\* F = SUM(fee) in micro-units.  The warehouse raises "Division by zero" on
\* T / D when D = 0; pd.read_sql lets the exception through.
SummaryRow(T, D, U, F) ==
    IF D = 0 THEN Failure("DivisionByZero")
    ELSE Success(<< ("Number of Transactions" :> T) @@ ("Activity days" :> D)
                    @@ ("Number of Users" :> U) @@ ("TPH" :> TPH(T, D))
                    @@ ("TPM" :> TPM(T, D)) @@ ("TPS" :> TPS(T, D))
                    @@ ("Total Fee" :> TotalFee(F)) >>)

ChainSummary(t) ==
    LET s == Succeeded(t)
    IN  SummaryRow(Cardinality({r.tx_id : r \in s}),
                   Cardinality({r.day : r \in s}),
                   Cardinality({r.tx_from : r \in s}),
                   SumSet(s, [r \in s |-> r.fee]))

---------------------------------------------------------------------------
(* (b) load_avg_block_time *)

\* block_timestamp truncated to whole seconds, as DATEDIFF('second', ..) does.
Seconds(ts) == ts \div TicksPerSecond

\* ordered_blocks: each block with LAG(block_timestamp) OVER (ORDER BY block_id)
OrderedBlocks(b) ==
    [i \in 1..Len(b) |->
        [block_id |-> i, block_timestamp |-> b[i],
         prev_timestamp |-> IF i = 1 THEN <<>> ELSE <<b[i - 1]>>]]

\* Variant: the first block kept, with a difference of zero.
BlockDiffsFirstAsZero(b) ==
    LET ob == OrderedBlocks(b)
    IN  [i \in 1..Len(b) |->
            IF ob[i].prev_timestamp = <<>> THEN 0
            ELSE Seconds(ob[i].block_timestamp) - Seconds(ob[i].prev_timestamp[1])]

\* block_diffs: WHERE prev_timestamp IS NOT NULL
BlockDiffs(b) ==
    LET ob == OrderedBlocks(b)
        keep == {i \in 1..Len(b) : ob[i].prev_timestamp # <<>>}
    IN  [i \in keep |->
            Seconds(ob[i].block_timestamp) - Seconds(ob[i].prev_timestamp[1])]

\* ROUND(AVG(block_time_seconds), 2): AVG has 6 fractional digits, NULL over
\* no rows; the result is in hundredths of a second.
AvgBlockTime(b) ==
    LET d == BlockDiffs(b)
        n == Cardinality(DOMAIN d)
        avg6 == RoundDiv(SumSet(DOMAIN d, d) * Mega, n)
    IN  Success(<< ("Average Block Time" :>
                      (IF n = 0 THEN <<>> ELSE <<RoundDiv(avg6, 10 ^ 4)>>)) >>)

---------------------------------------------------------------------------
(* (c) load_tx_success_fail, (d) load_new_user_metrics *)

\* DATE_TRUNC(week, d): the Monday of d's week.
WeekStart(d) == d - (d % 7)

TxStatus(t) ==
    LET weeks == {WeekStart(r.day) : r \in t}
        ord == SortSet(weeks, [w \in weeks |-> w])
        InWeek(w) == {r \in t : WeekStart(r.day) = w}
    IN  Success([i \in 1..Cardinality(weeks) |->
            ("Date" :> ord[i])
            @@ ("Successful Transactions" :>
                    Cardinality({r \in InWeek(ord[i]) : r.ok = TRUE}))
            @@ ("Failed Transactions" :>
                    Cardinality({r \in InWeek(ord[i]) : r.ok = FALSE}))
            @@ ("TXs" :> Cardinality({r.tx_id : r \in InWeek(ord[i])}))])

\* Variant: every transaction date of an address instead of its first.
LstAllEveryDate(t) == {[tx_from |-> r.tx_from, min_date |-> r.day] : r \in t}

\* lst_all: tx_from, MIN(block_timestamp)::date GROUP BY tx_from
LstAll(t) ==
    {[tx_from |-> a,
      min_date |-> CHOOSE d \in {r.day : r \in {x \in t : x.tx_from = a}} :
                      \A r \in t : r.tx_from = a => d <= r.day]
        : a \in {r.tx_from : r \in t}}

NewUserMetrics(t) ==
    LET la == LstAll(t)
        weeks == {WeekStart(x.min_date) : x \in la}
        ord == SortSet(weeks, [w \in weeks |-> w])
        New(w) == Cardinality({x.tx_from : x \in {y \in la : WeekStart(y.min_date) = w}})
    IN  Success([i \in 1..Cardinality(weeks) |->
            ("Date" :> ord[i])
            @@ ("New Users" :> New(ord[i]))
            \* SUM(..) OVER (ORDER BY week): every group up to the current week
            @@ ("Cumulative New Users" :>
                    SumSet({w \in weeks : w <= ord[i]}, [w \in weeks |-> New(w)]))])

---------------------------------------------------------------------------
(* (e) load_top_projects_engagement, (f) load_top_projects_all_time *)

\* axelar.core.dim_labels: address |-> LABEL, LABEL_SUBTYPE.  Addresses
\* 1..NumLabels carry the label of the same number; the last one is a token
\* contract.
NumLabels == TopN + 1

DimLabels ==
    [a \in 1..(NumLabels + 1) |->
        [LABEL |-> a,
         LABEL_SUBTYPE |-> IF a = NumLabels + 1 THEN "token_contract" ELSE "dapp"]]

\* axelar.core.fact_msg_attributes: one row per message attribute.  An
\* ATTRIBUTE_VALUE of 0 is an attribute that is no labelled address.
MsgAttributes ==
    {[tx_id |-> 2, msg_index |-> i, ATTRIBUTE_VALUE |-> NumLabels] : i \in 1..3}
    \cup {[tx_id |-> 3, msg_index |-> a, ATTRIBUTE_VALUE |-> a] : a \in 0..(NumLabels + 1)}
    \cup {[tx_id |-> 3, msg_index |-> NumLabels + 1 + a, ATTRIBUTE_VALUE |-> a]
             : a \in 1..(NumLabels - 2)}
    \cup {[tx_id |-> 4, msg_index |-> 1, ATTRIBUTE_VALUE |-> NumLabels - 1],
          [tx_id |-> 5, msg_index |-> 1, ATTRIBUTE_VALUE |-> 1],
          [tx_id |-> 5, msg_index |-> 2, ATTRIBUTE_VALUE |-> NumLabels + 1]}

\* fact_msg_attributes JOIN dim_labels ON address = ATTRIBUTE_VALUE
\*                     JOIN fact_transactions USING(tx_id)
\* WHERE block_timestamp::date >= CURRENT_DATE - 30
\*   AND LABEL_SUBTYPE != 'token_contract'
LabelledRows(t, day) ==
    {[tx_id |-> m.tx_id, msg_index |-> m.msg_index, tx_from |-> r.tx_from,
      date |-> r.day, LABEL |-> DimLabels[m.ATTRIBUTE_VALUE].LABEL]
        : <<m, r>> \in
            {x \in MsgAttributes \X t :
                /\ x[1].tx_id = x[2].tx_id
                /\ x[1].ATTRIBUTE_VALUE \in DOMAIN DimLabels
                /\ x[2].day >= day - WindowDays
                /\ DimLabels[x[1].ATTRIBUTE_VALUE].LABEL_SUBTYPE # "token_contract"}}

\* COUNT(tx_id) ... GROUP BY LABEL
LabelTxns(rows, l) == Cardinality({r \in rows : r.LABEL = l})

\* COUNT(DISTINCT tx_from) ... GROUP BY LABEL
LabelWallets(rows, l) == Cardinality({r.tx_from : r \in {x \in rows : x.LABEL = l}})

\* SELECT TOP 10 LABEL ... ORDER BY TXs DESC: the label sets the warehouse may
\* return; rows with equal counts come in no defined order.
TopSets(rows) ==
    LET labels == {r.LABEL : r \in rows}
    IN  {S \in SUBSET labels :
            /\ Cardinality(S) = Min(TopN, Cardinality(labels))
            /\ \A a \in S, b \in labels \ S :
                   LabelTxns(rows, a) >= LabelTxns(rows, b)}

\* The daily series of the labels of lst_top = top, ORDER BY "Date" (rows of
\* one date are listed by label).
EngagementRows(rows, top) ==
    LET groups == {<<r.date, r.LABEL>> : r \in {x \in rows : x.LABEL \in top}}
        ord == SortSet(groups, [g \in groups |-> g[1] * (NumLabels + 1) + g[2]])
        In(g) == {r \in rows : r.date = g[1] /\ r.LABEL = g[2]}
    IN  [i \in 1..Cardinality(groups) |->
            ("Date" :> ord[i][1]) @@ ("LABEL" :> ord[i][2])
            @@ ("Txns" :> Cardinality(In(ord[i])))
            @@ ("Wallets" :> Cardinality({r.tx_from : r \in In(ord[i])}))]

TopProjectsEngagement(t, day) ==
    LET rows == LabelledRows(t, day)
    IN  {Success(EngagementRows(rows, top)) : top \in TopSets(rows)}

\* One row per label of top, ORDER BY 2 DESC (equal counts listed by label).
AllTimeRows(rows, top) ==
    LET ord == SortSet(top, [a \in top |-> a - LabelTxns(rows, a) * (NumLabels + 1)])
    IN  [i \in 1..Cardinality(top) |->
            ("LABEL" :> ord[i]) @@ ("Txns" :> LabelTxns(rows, ord[i]))
            @@ ("Wallets" :> LabelWallets(rows, ord[i]))]

TopProjectsAllTime(t, day) ==
    LET rows == LabelledRows(t, day)
    IN  {Success(AllTimeRows(rows, top)) : top \in TopSets(rows)}

---------------------------------------------------------------------------
(* The warehouse contents the model draws from *)

\* Candidate rows of fact_transactions, in tx_id order.
TxPool ==
    << [tx_id |-> 1, day |-> 2,  tx_from |-> "a", fee |-> 250000000, ok |-> FALSE],
       [tx_id |-> 2, day |-> 9,  tx_from |-> "a", fee |-> 4000,      ok |-> TRUE],
       [tx_id |-> 3, day |-> 20, tx_from |-> "b", fee |-> 5000,      ok |-> TRUE],
       [tx_id |-> 4, day |-> 38, tx_from |-> "c", fee |-> 123456,    ok |-> FALSE],
       [tx_id |-> 5, day |-> 39, tx_from |-> "b", fee |-> 249991000, ok |-> TRUE] >>

TxPrefix(n) == {TxPool[i] : i \in 1..n}

\* The transactions the queries are evaluated on directly: any subset of
\* the candidate rows and of two more of a fourth sender.
CalcTxSets ==
    SUBSET (TxPrefix(Len(TxPool))
            \cup {[tx_id |-> 6, day |-> 3,  tx_from |-> "d", fee |-> 5000, ok |-> TRUE],
                  [tx_id |-> 7, day |-> 21, tx_from |-> "d", fee |-> 1,    ok |-> FALSE]})

\* Timestamps of the candidate rows of fact_blocks, in block_id order.
BlockPool == <<1, 2, 5, 9, 10>>

\* Block histories: timestamps never decrease along block_id.
BlockHistories ==
    {b \in UNION {[1..n -> 0..MaxTick] : n \in 0..MaxBlocks} :
        \A i \in 1..(Len(b) - 1) : b[i] <= b[i + 1]}

\* Aggregates the chain summary's SELECT list is evaluated on directly:
\* every count up to MaxTxns, the counts around a half of each rate's unit,
\* and the two worked examples.
SummaryInputs ==
    {x \in [T : (0..MaxTxns) \cup {100, 864000}
                 \cup {k * d + e : k \in {12, 720, 43200},
                                   d \in 1..MaxActiveDays, e \in {-1, 0, 1}},
            D : 0..MaxActiveDays, U : {0, 1, 30}, F : {0, 5000, 500000000}] :
        /\ x.D <= x.T /\ x.U <= x.T
        /\ (x.D = 0) = (x.T = 0)
        /\ (x.U = 0) = (x.T = 0)}

---------------------------------------------------------------------------
(* The script *)

\* Variant: the block-time loader called before the chain summary.
QReordered == << "avg_block_time", "chain_summary", "tx_status", "new_users",
                 "top_projects", "top_projects_all_time" >>

\* The six loaders in the order of lines 179-184, named by the variable
\* each result is assigned to.
Q == << "chain_summary", "avg_block_time", "tx_status", "new_users",
        "top_projects", "top_projects_all_time" >>

Loaders == {Q[i] : i \in 1..Len(Q)}

\* The outcomes the warehouse may give for loader q's query.
Query(q, t, b, day) ==
    CASE q = "chain_summary" -> {ChainSummary(t)}
      [] q = "avg_block_time" -> {AvgBlockTime(b)}
      [] q = "tx_status" -> {TxStatus(t)}
      [] q = "new_users" -> {NewUserMetrics(t)}
      [] q = "top_projects" -> TopProjectsEngagement(t, day)
      [] q = "top_projects_all_time" -> TopProjectsAllTime(t, day)

Tiles == {"Number of Transactions", "Number of Users", "Total Fee",
          "TPM", "TPS", "Average Block Time"}

Charts == {"chart_tx_status", "chart_new_users", "chart_top_txns",
           "chart_top_wallets", "donut_txns", "donut_wallets"}

Widgets == Tiles \cup Charts

NotDrawn == [kind |-> "none", value |-> <<>>]

\* st.metric(label=.., value=f"{v} ..")
Metric(v) == [kind |-> "metric", value |-> <<v>>]

\* The table each widget is drawn from.
Deps(w) ==
    CASE w \in {"Number of Transactions", "Number of Users", "Total Fee",
                "TPM", "TPS"} -> {"chain_summary"}
      [] w = "Average Block Time" -> {"avg_block_time"}
      [] w = "chart_tx_status" -> {"tx_status"}
      [] w = "chart_new_users" -> {"new_users"}
      [] w \in {"chart_top_txns", "chart_top_wallets"} -> {"top_projects"}
      [] w \in {"donut_txns", "donut_wallets"} -> {"top_projects_all_time"}

\* Variant: no else branch, nothing is drawn for an empty table.
ChartOrNothing(table) ==
    IF Len(table) # 0 THEN [kind |-> "chart", value |-> <<>>] ELSE NotDrawn

\* if not table.empty: st.plotly_chart(..) else: st.warning("No data ..")
ChartOrWarning(table) ==
    IF Len(table) # 0 THEN [kind |-> "chart", value |-> <<>>]
    ELSE [kind |-> "warning", value |-> <<>>]

\* Variant: the loader not memoised.
CacheLookupAlwaysMiss(q) == <<>>

\* @st.cache_data: the stored result for the call's key (the loaders take
\* no arguments, so the key is the loader), <<>> when there is none.
CacheLookup(q) == cache[q]

\* A loader has returned: the next statement of lines 179-184, then line 187.
AfterLoad ==
    IF ip < Len(Q) THEN pc' = "call" /\ ip' = ip + 1
    ELSE pc' = "draw" /\ ip' = 1

\* Variant: the exception caught and the script carried on.
AbortSwallowed(e) ==
    /\ error' = e
    /\ AfterLoad

\* The exception leaves the script: the run ends where it was raised.
Abort(e) ==
    /\ pc' = "aborted"
    /\ error' = e
    /\ ip' = ip

\* The process has started and no page has been viewed yet.
ScriptStart ==
    /\ today = FirstToday
    /\ cache = [q \in Loaders |-> <<>>]
    /\ df = [q \in Loaders |-> <<>>]
    /\ loaded = {}
    /\ pc = "idle"
    /\ ip = 0
    /\ inflight = {}
    /\ connects = 0
    /\ page = [w \in Widgets |-> NotDrawn]
    /\ log = <<>>
    /\ error = ""
    /\ execs = [q \in Loaders |-> 0]
    /\ stores = [q \in Loaders |-> 0]
    /\ runs = 0
    /\ failures = 0
    /\ ingests = 0
    /\ calc = [fn |-> "none"]

Init ==
    /\ \E n \in 0..Len(TxPool) :
          /\ txs = TxPrefix(n)
          /\ blocks = SubSeq(BlockPool, 1, n)
    /\ ScriptStart

\* A page view (or reload): the script runs again from its first line.
StartRun ==
    /\ pc \in {"idle", "done", "aborted"}
    /\ runs < MaxRuns
    /\ runs' = runs + 1
    /\ pc' = "connect"
    /\ ip' = 0
    /\ df' = [q \in Loaders |-> <<>>]
    /\ loaded' = {}
    /\ inflight' = {}
    /\ connects' = 0
    /\ page' = [w \in Widgets |-> NotDrawn]
    /\ log' = <<>>
    /\ error' = ""
    /\ UNCHANGED <<txs, blocks, today, cache, execs, stores, failures, ingests, calc>>

\* Lines 41-48: snowflake.connector.connect(..), or its exception.
Connect ==
    /\ pc = "connect"
    /\ \/ /\ connects' = connects + 1
          /\ log' = Append(log, "connect")
          /\ pc' = "call"
          /\ ip' = 1
          /\ UNCHANGED <<error, failures>>
       \/ /\ failures < MaxFailures
          /\ failures' = failures + 1
          /\ Abort("ConnectionFailure")
          /\ UNCHANGED <<connects, log>>
    /\ UNCHANGED <<txs, blocks, today, cache, df, loaded, inflight, page,
                   execs, stores, runs, ingests, calc>>

\* Lines 179-184, one statement: the memoised loader is called.  On a hit
\* the stored table is returned; on a miss the query goes to the warehouse.
Call ==
    /\ pc = "call"
    /\ LET q == Q[ip]
           hit == CacheLookup(q)
       IN  /\ log' = Append(log, q)
           /\ IF hit # <<>>
              THEN /\ df' = [df EXCEPT ![q] = hit[1]]
                   /\ loaded' = loaded \cup {q}
                   /\ AfterLoad
                   /\ UNCHANGED <<inflight, execs>>
              ELSE /\ inflight' = inflight \cup {q}
                   /\ execs' = [execs EXCEPT ![q] = @ + 1]
                   /\ pc' = "wait"
                   /\ UNCHANGED <<df, loaded, ip>>
    /\ UNCHANGED <<txs, blocks, today, cache, connects, page, error, stores,
                   runs, failures, ingests, calc>>

\* pd.read_sql(query, conn) returns: the table is stored and assigned, or
\* the exception (the query's own, or a lost warehouse) ends the run.
Return ==
    /\ pc = "wait"
    /\ LET q == Q[ip]
       IN  \E o \in Query(q, txs, blocks, today)
                    \cup {x \in {Failure("QueryFailure")} : failures < MaxFailures} :
              /\ inflight' = inflight \ {q}
              /\ IF o.ok
                 THEN /\ cache' = [cache EXCEPT ![q] = <<o.rows>>]
                      /\ stores' = [stores EXCEPT ![q] = @ + 1]
                      /\ df' = [df EXCEPT ![q] = o.rows]
                      /\ loaded' = loaded \cup {q}
                      /\ AfterLoad
                      /\ UNCHANGED <<error, failures>>
                 ELSE /\ Abort(o.err)
                      /\ failures' = failures + (IF o.err = "QueryFailure" THEN 1 ELSE 0)
                      /\ UNCHANGED <<cache, stores, df, loaded>>
    /\ UNCHANGED <<txs, blocks, today, connects, page, log, execs, runs,
                   ingests, calc>>

DrawUnchanged ==
    UNCHANGED <<txs, blocks, today, cache, df, loaded, inflight, connects,
                error, execs, stores, runs, failures, ingests, calc>>

\* Lines 187-207: the Overview header and the three chain-summary tiles.
Row1 ==
    /\ pc = "draw" /\ ip = 1
    /\ log' = Append(log, "Overview KPIs")
    /\ page' =
         IF Len(df["chain_summary"]) # 0
         THEN LET stats == df["chain_summary"][1]
              IN  [page EXCEPT
                     !["Number of Transactions"] = Metric(stats["Number of Transactions"]),
                     !["Number of Users"] = Metric(stats["Number of Users"]),
                     !["Total Fee"] = Metric(stats["Total Fee"])]
         ELSE page
    /\ ip' = 2
    /\ UNCHANGED pc
    /\ DrawUnchanged

\* Lines 210-223: TPM, TPS and the average block time.
Row2 ==
    /\ pc = "draw" /\ ip = 2
    /\ log' = Append(log, "Performance KPIs")
    /\ page' =
         IF Len(df["chain_summary"]) # 0 /\ Len(df["avg_block_time"]) # 0
         THEN LET stats == df["chain_summary"][1]
                  avg_block_sec == df["avg_block_time"][1]["Average Block Time"]
              IN  [page EXCEPT
                     !["TPM"] = Metric(stats["TPM"]),
                     !["TPS"] = Metric(stats["TPS"]),
                     !["Average Block Time"] = Metric(avg_block_sec)]
         ELSE page
    /\ ip' = 3
    /\ UNCHANGED pc
    /\ DrawUnchanged

\* Lines 226-318: the Transactions header and its two weekly charts.
Row3 ==
    /\ pc = "draw" /\ ip = 3
    /\ log' = Append(log, "Transactions charts")
    /\ page' = [page EXCEPT
                  !["chart_tx_status"] = ChartOrWarning(df["tx_status"]),
                  !["chart_new_users"] = ChartOrWarning(df["new_users"])]
    /\ ip' = 4
    /\ UNCHANGED pc
    /\ DrawUnchanged

\* Lines 321-369: the Projects header and the two stacked daily charts.
Row4 ==
    /\ pc = "draw" /\ ip = 4
    /\ log' = Append(log, "Projects charts")
    /\ page' = [page EXCEPT
                  !["chart_top_txns"] = ChartOrWarning(df["top_projects"]),
                  !["chart_top_wallets"] = ChartOrWarning(df["top_projects"])]
    /\ ip' = 5
    /\ UNCHANGED pc
    /\ DrawUnchanged

\* Lines 372-418: the two donut charts; the script then ends.
Row5 ==
    /\ pc = "draw" /\ ip = 5
    /\ log' = Append(log, "Projects charts")
    /\ page' = [page EXCEPT
                  !["donut_txns"] = ChartOrWarning(df["top_projects_all_time"]),
                  !["donut_wallets"] = ChartOrWarning(df["top_projects_all_time"])]
    /\ pc' = "done"
    /\ ip' = 0
    /\ DrawUnchanged

\* The warehouse is maintained elsewhere: the next block and its
\* transaction are appended to the fact tables.
Ingest ==
    /\ ingests < MaxIngests
    /\ Cardinality(txs) < Len(TxPool)
    /\ txs' = txs \cup {TxPool[Cardinality(txs) + 1]}
    /\ blocks' = Append(blocks, BlockPool[Len(blocks) + 1])
    /\ ingests' = ingests + 1
    /\ UNCHANGED <<today, cache, df, loaded, pc, ip, inflight, connects,
                   page, log, error, execs, stores, runs, failures, calc>>

Next ==
    \/ StartRun
    \/ Connect
    \/ Call
    \/ Return
    \/ Row1
    \/ Row2
    \/ Row3
    \/ Row4
    \/ Row5
    \/ Ingest

Spec == Init /\ [][Next]_vars

---------------------------------------------------------------------------
(* The queries evaluated directly on drawn warehouse contents *)

ScriptUnchanged ==
    UNCHANGED <<txs, blocks, today, cache, df, loaded, pc, ip, inflight,
                connects, page, log, error, execs, stores, runs, failures,
                ingests>>

\* The worked example: blocks at t0, t0+5s, t0+7s, t0+15s.
ExampleBlocks ==
    <<0, 5 * TicksPerSecond, 7 * TicksPerSecond, 15 * TicksPerSecond>>

InitCalc ==
    /\ txs = {}
    /\ blocks = <<>>
    /\ ScriptStart

\* The SELECT list of load_chain_summary on given aggregates.
CalcSummaryRow ==
    /\ calc.fn = "none"
    /\ \E x \in SummaryInputs :
          calc' = [fn |-> "summary_row", in |-> x,
                   out |-> SummaryRow(x.T, x.D, x.U, x.F)]
    /\ ScriptUnchanged

\* load_chain_summary's query on a set of transactions.
CalcChainSummary ==
    /\ calc.fn = "none"
    /\ \E t \in CalcTxSets :
          calc' = [fn |-> "chain_summary", in |-> t, out |-> ChainSummary(t)]
    /\ ScriptUnchanged

\* load_avg_block_time's query on a block history.
CalcAvgBlockTime ==
    /\ calc.fn = "none"
    /\ \E b \in BlockHistories \cup {ExampleBlocks} :
          calc' = [fn |-> "avg_block_time", in |-> b, out |-> AvgBlockTime(b)]
    /\ ScriptUnchanged

\* load_new_user_metrics' query on a set of transactions.
CalcNewUsers ==
    /\ calc.fn = "none"
    /\ \E t \in CalcTxSets :
          calc' = [fn |-> "new_users", in |-> t, out |-> NewUserMetrics(t)]
    /\ ScriptUnchanged

NextCalc ==
    \/ CalcSummaryRow
    \/ CalcChainSummary
    \/ CalcAvgBlockTime
    \/ CalcNewUsers

SpecCalc == InitCalc /\ [][NextCalc]_vars

---------------------------------------------------------------------------
(* Properties of the queries (checked under SpecCalc) *)

\* C6: for activeDays >= 1, TPH, TPM and TPS of the chain summary equal
\* totalTxns / activeDays / divisor with one rounding (halves away from
\* zero) of the exact quotient, divisor 24, 1440 and 86400.
C6_RatesRoundedOnce ==
    (calc.fn = "summary_row" /\ calc.in.D >= 1) =>
        /\ calc.out.ok
        /\ Len(calc.out.rows) = 1
        /\ calc.out.rows[1]["TPH"] = RoundDiv(calc.in.T, calc.in.D * 24)
        /\ calc.out.rows[1]["TPM"] = RoundDiv(calc.in.T, calc.in.D * 1440)
        /\ calc.out.rows[1]["TPS"] = RoundDiv(calc.in.T, calc.in.D * 86400)

\* The worked example 864000 transactions over 10 days: TPS 1, TPM 60, TPH 3600.
C6_Witness ==
    /\ calc.fn = "summary_row"
    /\ calc.in.T = 864000 /\ calc.in.D = 10
    /\ calc.out.rows[1]["TPS"] = 1
    /\ calc.out.rows[1]["TPM"] = 60
    /\ calc.out.rows[1]["TPH"] = 3600

\* C7 as stated: the summary row counts the distinct transaction ids, days
\* and senders of all the transactions, whatever their success status, and
\* its Total Fee is the sum of their fees divided by 1e6.
C7_SummaryOverAllTransactions ==
    (calc.fn = "chain_summary" /\ calc.out.ok) =>
        /\ Len(calc.out.rows) = 1
        /\ calc.out.rows[1]["Number of Transactions"]
             = Cardinality({r.tx_id : r \in calc.in})
        /\ calc.out.rows[1]["Activity days"] = Cardinality({r.day : r \in calc.in})
        /\ calc.out.rows[1]["Number of Users"]
             = Cardinality({r.tx_from : r \in calc.in})
        /\ calc.out.rows[1]["Total Fee"] * (10 ^ 4)
             = SumSet(calc.in, [r \in calc.in |-> r.fee])

\* C7 amended: the row counts the transactions with TX_SUCCEEDED = TRUE only,
\* its Total Fee is the sum of their fees divided by 1e6 and rounded to two
\* decimals, and without any such transaction the query fails (division by
\* zero) instead of returning a row.  On 100 transactions, 2 days, 30
\* senders and a fee sum of 500,000,000 the row is 100, 2, 30, TPH 2, TPM 0,
\* TPS 0, Total Fee 500.00.
C7_SummaryOverSucceeded ==
    /\ calc.fn = "chain_summary" =>
         LET s == {r \in calc.in : r.ok = TRUE}
         IN  IF s = {}
             THEN ~calc.out.ok /\ calc.out.err = "DivisionByZero"
             ELSE /\ calc.out.ok
                  /\ Len(calc.out.rows) = 1
                  /\ calc.out.rows[1]["Number of Transactions"]
                       = Cardinality({r.tx_id : r \in s})
                  /\ calc.out.rows[1]["Activity days"] = Cardinality({r.day : r \in s})
                  /\ calc.out.rows[1]["Number of Users"]
                       = Cardinality({r.tx_from : r \in s})
                  /\ calc.out.rows[1]["Total Fee"]
                       = RoundDiv(SumSet(s, [r \in s |-> r.fee]), 10 ^ 4)
    /\ (calc.fn = "summary_row"
        /\ calc.in = [T |-> 100, D |-> 2, U |-> 30, F |-> 500000000]) =>
         calc.out.rows =
            << ("Number of Transactions" :> 100) @@ ("Activity days" :> 2)
               @@ ("Number of Users" :> 30) @@ ("TPH" :> 2) @@ ("TPM" :> 0)
               @@ ("TPS" :> 0) @@ ("Total Fee" :> 50000) >>

\* A summary over successful and failed transactions together.
C7_Witness ==
    /\ calc.fn = "chain_summary"
    /\ calc.out.ok
    /\ \E r \in calc.in : r.ok = FALSE
    /\ Cardinality({r \in calc.in : r.ok = TRUE}) >= 2

\* C8 as stated: for at least two blocks the average block time equals the
\* mean of the n - 1 differences in seconds between each block and its
\* predecessor.
C8_AverageIsExactMean ==
    (calc.fn = "avg_block_time" /\ Len(calc.in) >= 2) =>
        /\ calc.out.rows[1]["Average Block Time"] # <<>>
        /\ calc.out.rows[1]["Average Block Time"][1] * (Len(calc.in) - 1)
             = 100 * (Seconds(calc.in[Len(calc.in)]) - Seconds(calc.in[1]))

\* C8 amended: it equals that mean rounded to two decimals, the differences
\* being taken between the timestamps' whole seconds; the first block
\* contributes no difference, so n blocks give n - 1 of them (which sum to
\* the last whole second minus the first).
C8_AverageIsRoundedMean ==
    (calc.fn = "avg_block_time" /\ Len(calc.in) >= 2) =>
        /\ calc.out.ok
        /\ Len(calc.out.rows) = 1
        /\ calc.out.rows[1]["Average Block Time"] =
             << RoundDiv(100 * (Seconds(calc.in[Len(calc.in)]) - Seconds(calc.in[1])),
                         Len(calc.in) - 1) >>

\* The worked example: differences 5, 2 and 8 seconds, average 5.00.
C8_Witness ==
    /\ calc.fn = "avg_block_time"
    /\ calc.in = ExampleBlocks
    /\ calc.out.rows[1]["Average Block Time"] = <<500>>

\* C9: in the new-user table every address is counted in exactly one week,
\* that of its first transaction; there is one row per week, in ascending
\* week order; each row's cumulative count is the sum of the new-user
\* counts of the rows up to it, so the sequence never decreases and ends at
\* the number of distinct senders.
C9_CumulativeNewUsers ==
    calc.fn = "new_users" =>
        LET rows == calc.out.rows
            senders == {r.tx_from : r \in calc.in}
            First(a) == CHOOSE d \in {r.day : r \in calc.in} :
                           /\ \E r \in calc.in : r.tx_from = a /\ r.day = d
                           /\ \A r \in calc.in : r.tx_from = a => d <= r.day
        IN  /\ calc.out.ok
            /\ \A a \in senders :
                  Cardinality({i \in 1..Len(rows) :
                                  rows[i]["Date"] = WeekStart(First(a))}) = 1
            /\ \A i \in 1..Len(rows) :
                  /\ rows[i]["New Users"] =
                        Cardinality({a \in senders : WeekStart(First(a)) = rows[i]["Date"]})
                  /\ rows[i]["New Users"] >= 1
                  /\ rows[i]["Cumulative New Users"] =
                        SumSeq([j \in 1..i |-> rows[j]["New Users"]])
            /\ \A i \in 1..(Len(rows) - 1) :
                  /\ rows[i]["Date"] < rows[i + 1]["Date"]
                  /\ rows[i]["Cumulative New Users"] <= rows[i + 1]["Cumulative New Users"]
            /\ senders # {} =>
                  rows[Len(rows)]["Cumulative New Users"] = Cardinality(senders)

\* Three weeks of new users, one of them with two, and an address that
\* also transacts in a later week than its first.
C9_Witness ==
    /\ calc.fn = "new_users"
    /\ Len(calc.out.rows) = 3
    /\ \E i \in 1..3 : calc.out.rows[i]["New Users"] = 2
    /\ \E r1 \in calc.in, r2 \in calc.in :
          r1.tx_from = r2.tx_from /\ WeekStart(r1.day) # WeekStart(r2.day)

---------------------------------------------------------------------------
(* Properties of the script (checked under Spec) *)

\* C1 as stated: over any sequence of page renders the warehouse query of a
\* loader is executed at most once (stated for the warehouses on which every
\* query can succeed).
C1_QueryExecutedAtMostOnce ==
    Succeeded(txs) # {} => \A q \in Loaders : execs[q] <= 1

\* C1 amended: a result is stored at most once per loader; a failed
\* execution stores nothing, so the query is sent again by the next render;
\* once a result is stored no query of that loader is sent any more and
\* every call returns a table equal to the stored one.
C1_AtMostOneStoredResult ==
    \A q \in Loaders :
        /\ stores[q] <= 1
        /\ (stores[q] = 1) = (cache[q] # <<>>)
        /\ stores[q] <= execs[q]
        /\ q \in inflight => cache[q] = <<>>
        /\ q \in loaded => cache[q] = <<df[q]>>

\* A second render that was served from the cache alone, although the
\* warehouse has changed since the results were stored.
C1_Witness ==
    /\ runs = 2 /\ pc = "done"
    /\ \A q \in Loaders : execs[q] = 1 /\ stores[q] = 1
    /\ Success(df["tx_status"]) \notin Query("tx_status", txs, blocks, today)

C3_OtherWidgetsStillRendered ==
    (pc = "aborted" /\ error = "QueryFailure") =>
        \A w \in Widgets : Q[ip] \notin Deps(w) => page[w].kind # "none"

\* C3 amended: a failed query is not retried and its exception ends the
\* render at that loader call: the loaders after it are not called, no tile
\* and no chart is rendered, also none of those drawn from tables already
\* loaded, which stay stored for the next render.
C3_FailureEndsTheRender ==
    error \in {"QueryFailure", "DivisionByZero"} =>
        /\ pc = "aborted"
        /\ inflight = {}
        /\ log = <<"connect">> \o SubSeq(Q, 1, ip)
        /\ Cardinality({i \in 1..Len(log) : log[i] = Q[ip]}) = 1
        /\ Q[ip] \notin loaded /\ cache[Q[ip]] = <<>>
        /\ \A w \in Widgets : page[w] = NotDrawn
        /\ \A q \in loaded : cache[q] = <<df[q]>>

\* A query failed after other tables had been loaded.
C3_Witness ==
    /\ pc = "aborted" /\ error = "QueryFailure"
    /\ loaded # {}
    /\ \A w \in Widgets : page[w] = NotDrawn

\* C4: in every render the connection is opened once, then the six loaders
\* are called one at a time in the fixed order, then, only after all six
\* have returned, the sections are drawn in the order Overview, Performance,
\* Transactions, Projects; at most one query is in flight.
C4_FixedOrder ==
    LET Canon == << "connect", "chain_summary", "avg_block_time", "tx_status",
                    "new_users", "top_projects", "top_projects_all_time",
                    "Overview KPIs", "Performance KPIs", "Transactions charts",
                    "Projects charts", "Projects charts" >>
    IN  /\ Len(log) <= Len(Canon)
        /\ log = SubSeq(Canon, 1, Len(log))
        /\ connects <= 1
        /\ pc \in {"call", "wait", "draw", "done"} => connects = 1
        /\ Cardinality(inflight) <= 1
        /\ inflight # {} => (pc = "wait" /\ inflight = {log[Len(log)]})
        /\ (\E w \in Widgets : page[w] # NotDrawn) =>
              (loaded = Loaders /\ inflight = {} /\ Len(log) > 1 + Len(Q))
        /\ pc = "done" => log = Canon

\* A complete render.
C4_Witness ==
    /\ pc = "done"
    /\ Len(log) = 12
    /\ \A w \in Charts : page[w] # NotDrawn

\* C5: a chain summary over zero active days is treated as "no data": no
\* division-by-zero error leaves the query or ends the render, and the TPM
\* and TPS tiles show no numeric zero for it.
C5_ZeroActiveDaysIsNoData ==
    /\ error # "DivisionByZero"
    /\ (Len(df["chain_summary"]) # 0
        /\ df["chain_summary"][1]["Activity days"] = 0) =>
          (page["TPM"] # Metric(0) /\ page["TPS"] # Metric(0))

\* C10: the daily series of the engagement query has at most ten labels and
\* only dates of the trailing window, and its labels are the labels the
\* snapshot query gives to the donut charts.
C10_SameTopSetInBothCharts ==
    pc = "done" =>
        LET eng == df["top_projects"]
            snap == df["top_projects_all_time"]
            labels == {eng[i]["LABEL"] : i \in 1..Len(eng)}
        IN  /\ Cardinality(labels) <= TopN
            /\ \A i \in 1..Len(eng) : eng[i]["Date"] >= today - WindowDays
            /\ labels = {snap[i]["LABEL"] : i \in 1..Len(snap)}

===========================================================================
